---- MODULE Spec2Model ----
(***************************************************************************)
(* Bit-level model of the CPU simulator's arithmetic core: Bit gates,      *)
(* CombinationalCircuits, Register, LSU::MOV and the ALU operations        *)
(* together with the four condition flags CF, ZF, SF, OF.                  *)
(*                                                                         *)
(* A register is a function from bit index (0 = least significant) to      *)
(* BOOLEAN.  The register file is a function from register number to       *)
(* register.  ALU operations take register numbers, so a call whose        *)
(* reference parameters alias is modelled as the code executes it.         *)
(***************************************************************************)
EXTENDS Integers, Sequences, FiniteSets, TLC

VARIABLES
    ARCHITECTURE,   \* register width in bits (cpu.hpp); fixed along a behaviour
    regs,           \* the register file
    CF, ZF, SF, OF, \* ALU flags
    hist            \* the calls made so far, each with the machine state before it

vars == <<ARCHITECTURE, regs, CF, ZF, SF, OF, hist>>

(***************************************************************************)
(* Bounds of the model.                                                    *)
(***************************************************************************)
\* register width used by the exhaustive specifications
ModelArchitecture == 4
\* number of ALU calls in one behaviour
MaxCalls == 2

(***************************************************************************)
(* Register numbers.  The demonstration program binds zero to regs[15] and *)
(* temp to regs[14]; two further registers hold the operands.              *)
(***************************************************************************)
zero == 15
temp == 14
Operands == {0, 1}
RegIds == Operands \cup {temp, zero}

(***************************************************************************)
(* Bit                                                                     *)
(***************************************************************************)
BitNot(x) == ~x
BitAnd(x, y) == x /\ y
BitOr(x, y) == x \/ y
BitXor(x, y) == x # y
XNOR(x, y) == BitNot(BitXor(x, y))
BitEq(x, y) == XNOR(x, y)
BitNeq(x, y) == BitXor(x, y)

(***************************************************************************)
(* CombinationalCircuits                                                   *)
(***************************************************************************)
HALF_ADDER_SUM(x, y) == BitXor(x, y)
HALF_ADDER_CARRY(x, y) == BitAnd(x, y)
HALF_ADDER(x, y) == [SUM |-> HALF_ADDER_SUM(x, y), CARRY |-> HALF_ADDER_CARRY(x, y)]

FULL_ADDER_SUM(x, y, c) == HALF_ADDER_SUM(HALF_ADDER_SUM(x, y), c)
\* carry with the second half adder fed x instead of the first stage's sum
FULL_ADDER_CARRY_SecondStageOnX(x, y, c) ==
    BitOr(HALF_ADDER_CARRY(x, y), HALF_ADDER_CARRY(x, c))

FULL_ADDER_CARRY(x, y, c) ==
    BitOr(HALF_ADDER_CARRY(x, y), HALF_ADDER_CARRY(HALF_ADDER_SUM(x, y), c))
FULL_ADDER(x, y, c) == [SUM |-> FULL_ADDER_SUM(x, y, c), CARRY |-> FULL_ADDER_CARRY(x, y, c)]

HALF_SUBTRACTOR_DIFFERENCE(x, y) == BitXor(x, y)
HALF_SUBTRACTOR_BORROW(x, y) == BitAnd(BitNot(x), y)
HALF_SUBTRACTOR(x, y) ==
    [DIFFERENCE |-> HALF_SUBTRACTOR_DIFFERENCE(x, y), BORROW |-> HALF_SUBTRACTOR_BORROW(x, y)]

FULL_SUBTRACTOR_DIFFERENCE(x, y, b) ==
    HALF_SUBTRACTOR_DIFFERENCE(HALF_SUBTRACTOR_DIFFERENCE(x, y), b)
\* borrow with the second half subtractor fed x instead of the first
\* stage's difference
FULL_SUBTRACTOR_BORROW_SecondStageOnX(x, y, b) ==
    BitOr(HALF_SUBTRACTOR_BORROW(x, y), HALF_SUBTRACTOR_BORROW(x, b))

FULL_SUBTRACTOR_BORROW(x, y, b) ==
    BitOr(HALF_SUBTRACTOR_BORROW(x, y),
          HALF_SUBTRACTOR_BORROW(HALF_SUBTRACTOR_DIFFERENCE(x, y), b))
FULL_SUBTRACTOR(x, y, b) ==
    [DIFFERENCE |-> FULL_SUBTRACTOR_DIFFERENCE(x, y, b), BORROW |-> FULL_SUBTRACTOR_BORROW(x, y, b)]

\* The truth tables of the class's comments, one row per input combination
\* in the order the comments list them (x y, or x y c, counting upwards).
HalfAdderSumTable == <<FALSE, TRUE, TRUE, FALSE>>
HalfAdderCarryTable == <<FALSE, FALSE, FALSE, TRUE>>
HalfSubtractorDifferenceTable == <<FALSE, TRUE, TRUE, FALSE>>
HalfSubtractorBorrowTable == <<FALSE, TRUE, FALSE, FALSE>>
FullAdderSumTable == <<FALSE, TRUE, TRUE, FALSE, TRUE, FALSE, FALSE, TRUE>>
FullAdderCarryTable == <<FALSE, FALSE, FALSE, TRUE, FALSE, TRUE, TRUE, TRUE>>
FullSubtractorDifferenceTable == <<FALSE, TRUE, TRUE, FALSE, TRUE, FALSE, FALSE, TRUE>>
FullSubtractorBorrowTable == <<FALSE, TRUE, TRUE, TRUE, FALSE, FALSE, FALSE, TRUE>>

(***************************************************************************)
(* Register                                                                *)
(***************************************************************************)
RECURSIVE Pow2(_)
Pow2(n) == IF n = 0 THEN 1 ELSE 2 * Pow2(n - 1)

BitIndex == 0 .. (ARCHITECTURE - 1)

\* Register(): all bits 0
ZeroRegister == [i \in BitIndex |-> FALSE]

\* Register(value): bits[i] = Bit(value >> i & 1); >> on a negative value is
\* the arithmetic shift, i.e. floor division.
RegisterOf(value) == [i \in BitIndex |-> ((value \div Pow2(i)) % 2) = 1]

MSB(reg) == reg[ARCHITECTURE - 1]

\* operator T() for an unsigned T: value |= bits[i] << i
RECURSIVE ToUnsignedFrom(_, _)
ToUnsignedFrom(reg, i) ==
    IF i >= ARCHITECTURE THEN 0
    ELSE (IF reg[i] THEN Pow2(i) ELSE 0) + ToUnsignedFrom(reg, i + 1)
ToUnsigned(reg) == ToUnsignedFrom(reg, 0)

\* operator T() for a signed T of exactly ARCHITECTURE bits: the same bit
\* pattern read as two's complement.
ToSigned(reg) ==
    IF MSB(reg) THEN ToUnsigned(reg) - Pow2(ARCHITECTURE) ELSE ToUnsigned(reg)

(***************************************************************************)
(* The machine: register file and flags, as one value the operations map.  *)
(***************************************************************************)
Machine == [regs |-> regs, CF |-> CF, ZF |-> ZF, SF |-> SF, OF |-> OF]

\* The ';' between the statements of a function body, as in ALU::CMP's
\* "LSU::MOV(temp, lhs); SUB(temp, rhs);": Then(m, F) is F applied to the
\* machine the statement before it left.  The machine is fixed as a value
\* before F starts, so evaluating a body never nests the evaluation of all
\* its earlier statements inside its last one.
Then(m, F(_)) == CHOOSE after \in {F(before) : before \in {m}} : TRUE

(***************************************************************************)
(* LSU                                                                     *)
(***************************************************************************)
\* MOV(dst, src): dst[i] = src[i] for every i
RECURSIVE MOV_loop(_, _, _, _)
MOV_loop(m, dst, src, i) ==
    IF i >= ARCHITECTURE THEN m
    ELSE MOV_loop([m EXCEPT !.regs[dst][i] = m.regs[src][i]], dst, src, i + 1)
MOV(m, dst, src) == MOV_loop(m, dst, src, 0)

\* MOV(reg, value): reg[i] = Bit(value >> i & 1)
MOVI(m, reg, value) == [m EXCEPT !.regs[reg] = RegisterOf(value)]

(***************************************************************************)
(* ALU                                                                     *)
(***************************************************************************)
\* The ripple loop shared in shape by ADD and SUB: one FULL_ADDER per bit,
\* the sum written back into lhs, ZF cleared by any 1 sum bit.
RECURSIVE ADD_loop(_, _, _, _, _)
ADD_loop(m, lhs, rhs, i, carry) ==
    IF i >= ARCHITECTURE THEN [m |-> m, carry |-> carry]
    ELSE LET fa == FULL_ADDER(m.regs[lhs][i], m.regs[rhs][i], carry)
             m1 == [m EXCEPT !.regs[lhs][i] = fa.SUM,
                             !.ZF = IF fa.SUM THEN FALSE ELSE @]
         IN  ADD_loop(m1, lhs, rhs, i + 1, fa.CARRY)

\* ADD with the carry flag inverted, as SUB sets it
ADD_InvertedCarry(m, lhs, rhs) ==
    LET lhs_MSB_before == MSB(m.regs[lhs])
        rhs_MSB == MSB(m.regs[rhs])
        r == ADD_loop([m EXCEPT !.ZF = TRUE], lhs, rhs, 0, FALSE)
        sf == MSB(r.m.regs[lhs])
    IN  [r.m EXCEPT !.SF = sf,
                    !.CF = BitNot(r.carry),
                    !.OF = BitAnd(BitEq(lhs_MSB_before, rhs_MSB), BitNeq(sf, lhs_MSB_before))]

\* ADD with SUB's overflow rule (operand signs differ)
ADD_SubOverflowRule(m, lhs, rhs) ==
    LET lhs_MSB_before == MSB(m.regs[lhs])
        rhs_MSB == MSB(m.regs[rhs])
        r == ADD_loop([m EXCEPT !.ZF = TRUE], lhs, rhs, 0, FALSE)
        sf == MSB(r.m.regs[lhs])
    IN  [r.m EXCEPT !.SF = sf,
                    !.CF = r.carry,
                    !.OF = BitAnd(BitNeq(lhs_MSB_before, rhs_MSB), BitNeq(sf, lhs_MSB_before))]

ADD(m, lhs, rhs) ==
    LET lhs_MSB_before == MSB(m.regs[lhs])
        rhs_MSB == MSB(m.regs[rhs])
        r == ADD_loop([m EXCEPT !.ZF = TRUE], lhs, rhs, 0, FALSE)
        sf == MSB(r.m.regs[lhs])
    IN  [r.m EXCEPT !.SF = sf,
                    !.CF = r.carry,
                    !.OF = BitAnd(BitEq(lhs_MSB_before, rhs_MSB), BitNeq(sf, lhs_MSB_before))]

RECURSIVE SUB_loop(_, _, _, _, _)
SUB_loop(m, lhs, rhs, i, carry) ==
    IF i >= ARCHITECTURE THEN [m |-> m, carry |-> carry]
    ELSE LET fa == FULL_ADDER(m.regs[lhs][i], BitNot(m.regs[rhs][i]), carry)
             m1 == [m EXCEPT !.regs[lhs][i] = fa.SUM,
                             !.ZF = IF fa.SUM THEN FALSE ELSE @]
         IN  SUB_loop(m1, lhs, rhs, i + 1, fa.CARRY)

\* SUB with the final carry copied into CF without inversion
SUB_CarryNotInverted(m, lhs, rhs) ==
    LET lhs_MSB_before == MSB(m.regs[lhs])
        rhs_MSB == MSB(m.regs[rhs])
        r == SUB_loop([m EXCEPT !.ZF = TRUE], lhs, rhs, 0, TRUE)
        sf == MSB(r.m.regs[lhs])
    IN  [r.m EXCEPT !.SF = sf,
                    !.CF = r.carry,
                    !.OF = BitAnd(BitNeq(lhs_MSB_before, rhs_MSB), BitNeq(sf, lhs_MSB_before))]

\* SUB with carry-in 0: lhs + ~rhs, the +1 of the two's complement forgotten
SUB_NoCarryIn(m, lhs, rhs) ==
    LET lhs_MSB_before == MSB(m.regs[lhs])
        rhs_MSB == MSB(m.regs[rhs])
        r == SUB_loop([m EXCEPT !.ZF = TRUE], lhs, rhs, 0, FALSE)
        sf == MSB(r.m.regs[lhs])
    IN  [r.m EXCEPT !.SF = sf,
                    !.CF = BitNot(r.carry),
                    !.OF = BitAnd(BitNeq(lhs_MSB_before, rhs_MSB), BitNeq(sf, lhs_MSB_before))]

SUB(m, lhs, rhs) ==
    LET lhs_MSB_before == MSB(m.regs[lhs])
        rhs_MSB == MSB(m.regs[rhs])
        r == SUB_loop([m EXCEPT !.ZF = TRUE], lhs, rhs, 0, TRUE)
        sf == MSB(r.m.regs[lhs])
    IN  [r.m EXCEPT !.SF = sf,
                    !.CF = BitNot(r.carry),
                    !.OF = BitAnd(BitNeq(lhs_MSB_before, rhs_MSB), BitNeq(sf, lhs_MSB_before))]

\* INC: FULL_ADDER(reg[i], false, carry) with carry-in 1; the loop breaks at
\* the first bit that produces no carry.
RECURSIVE INC_loop(_, _, _, _)
INC_loop(m, reg, i, carry) ==
    IF i >= ARCHITECTURE THEN m
    ELSE LET fa == FULL_ADDER(m.regs[reg][i], FALSE, carry)
             m1 == [m EXCEPT !.regs[reg][i] = fa.SUM,
                             !.ZF = IF fa.SUM THEN FALSE ELSE @]
         IN  IF ~fa.CARRY THEN m1 ELSE INC_loop(m1, reg, i + 1, fa.CARRY)

\* INC with OF taken from the result's sign alone
INC_OverflowFromSignOnly(m, reg) ==
    LET m1 == INC_loop([m EXCEPT !.ZF = TRUE], reg, 0, TRUE)
        sf == MSB(m1.regs[reg])
    IN  [m1 EXCEPT !.SF = sf, !.OF = BitEq(sf, TRUE)]

\* INC that reports the carry out of the MSB in CF, as ADD does
INC_WritesCarry(m, reg) ==
    LET MSB_before == MSB(m.regs[reg])
        m1 == INC_loop([m EXCEPT !.ZF = TRUE], reg, 0, TRUE)
        sf == MSB(m1.regs[reg])
    IN  [m1 EXCEPT !.SF = sf,
                   !.CF = m1.ZF,
                   !.OF = BitAnd(BitEq(MSB_before, FALSE), BitEq(sf, TRUE))]

INC(m, reg) ==
    LET MSB_before == MSB(m.regs[reg])
        m1 == INC_loop([m EXCEPT !.ZF = TRUE], reg, 0, TRUE)
        sf == MSB(m1.regs[reg])
    IN  [m1 EXCEPT !.SF = sf,
                   !.OF = BitAnd(BitEq(MSB_before, FALSE), BitEq(sf, TRUE))]

\* DEC: FULL_ADDER(reg[i], true, carry) with carry-in 1; the loop breaks at
\* the first bit that produces no carry.
RECURSIVE DEC_loop(_, _, _, _)
DEC_loop(m, reg, i, carry) ==
    IF i >= ARCHITECTURE THEN m
    ELSE LET fa == FULL_ADDER(m.regs[reg][i], TRUE, carry)
             m1 == [m EXCEPT !.regs[reg][i] = fa.SUM,
                             !.ZF = IF fa.SUM THEN FALSE ELSE @]
         IN  IF ~fa.CARRY THEN m1 ELSE DEC_loop(m1, reg, i + 1, fa.CARRY)

DEC(m, reg) ==
    LET MSB_before == MSB(m.regs[reg])
        m1 == DEC_loop([m EXCEPT !.ZF = TRUE], reg, 0, TRUE)
        sf == MSB(m1.regs[reg])
    IN  [m1 EXCEPT !.SF = sf,
                   !.OF = BitEq(MSB_before, TRUE) /\ BitEq(sf, FALSE)]

\* CMP subtracting in the scratch register without copying lhs into it
CMP_WithoutCopy(m, lhs, rhs, tmp) == SUB(m, tmp, rhs)

\* CMP(lhs, rhs, temp): MOV(temp, lhs); SUB(temp, rhs)
CMP(m, lhs, rhs, tmp) == Then(MOV(m, tmp, lhs), LAMBDA m1 : SUB(m1, tmp, rhs))

\* NEG(reg, temp, zero)
\* NEG with CF = ZF, the negation dropped
NEG_CarryIsZero(m, reg, tmp, zr) ==
    LET m1 == MOV(m, tmp, zr)
        m2 == SUB(m1, tmp, reg)
        m3 == MOV(m2, reg, tmp)
        m4 == CMP(m3, reg, zr, tmp)
        m5 == [m4 EXCEPT !.CF = m4.ZF]
    IN  [m5 EXCEPT !.OF = MSB(m5.regs[reg]) /\ m5.ZF]

\* NEG subtracting from the scratch register as it finds it
NEG_WithoutClearingTemp(m, reg, tmp, zr) ==
    LET m2 == SUB(m, tmp, reg)
        m3 == MOV(m2, reg, tmp)
        m4 == CMP(m3, reg, zr, tmp)
        m5 == [m4 EXCEPT !.CF = ~m4.ZF]
    IN  [m5 EXCEPT !.OF = MSB(m5.regs[reg]) /\ m5.ZF]

NEG(m, reg, tmp, zr) ==
    LET m1 == MOV(m, tmp, zr)
        m2 == SUB(m1, tmp, reg)
        m3 == MOV(m2, reg, tmp)
        m4 == CMP(m3, reg, zr, tmp)
        m5 == [m4 EXCEPT !.CF = ~m4.ZF]
    IN  [m5 EXCEPT !.OF = MSB(m5.regs[reg]) /\ m5.ZF]

\* SHL: the two loops of the general case.  The first copies reg[i] to
\* reg[i + count] for i from ARCHITECTURE - 1 - count down to 0, the second
\* clears reg[0 .. count - 1].
RECURSIVE SHL_move(_, _, _, _)
SHL_move(m, reg, count, i) ==
    IF i < 0 THEN m
    ELSE SHL_move([m EXCEPT !.regs[reg][i + count] = m.regs[reg][i]], reg, count, i - 1)

RECURSIVE SHL_clear(_, _, _, _)
SHL_clear(m, reg, count, i) ==
    IF i >= count THEN m
    ELSE SHL_clear([m EXCEPT !.regs[reg][i] = FALSE], reg, count, i + 1)

SHL(m, reg, count, zr, tmp) ==
    IF count = 0 THEN
        Then(CMP([m EXCEPT !.SF = MSB(m.regs[reg])], reg, zr, tmp), LAMBDA m2 :
        [m2 EXCEPT !.CF = FALSE, !.OF = FALSE])
    ELSE IF count >= ARCHITECTURE THEN
        Then(MOV([m EXCEPT !.CF = m.regs[reg][ARCHITECTURE - 1]], reg, zr), LAMBDA m2 :
        Then(CMP([m2 EXCEPT !.SF = FALSE], reg, zr, tmp), LAMBDA m4 :
        [m4 EXCEPT !.OF = FALSE]))
    ELSE
        Then(SHL_move([m EXCEPT !.CF = m.regs[reg][ARCHITECTURE - count]],
                      reg, count, ARCHITECTURE - 1 - count), LAMBDA m2 :
        Then(SHL_clear(m2, reg, count, 0), LAMBDA m3 :
        Then(CMP([m3 EXCEPT !.SF = MSB(m3.regs[reg])], reg, zr, tmp), LAMBDA m5 :
        [m5 EXCEPT !.OF = IF count = 1 THEN BitXor(m5.SF, m5.CF) ELSE FALSE])))

\* SHR: reg[i] = reg[i + count] for i from 0 up, then the top count bits
\* are cleared.
RECURSIVE SHR_move(_, _, _, _)
SHR_move(m, reg, count, i) ==
    IF i >= ARCHITECTURE - count THEN m
    ELSE SHR_move([m EXCEPT !.regs[reg][i] = m.regs[reg][i + count]], reg, count, i + 1)

RECURSIVE SHR_clear(_, _, _)
SHR_clear(m, reg, i) ==
    IF i >= ARCHITECTURE THEN m
    ELSE SHR_clear([m EXCEPT !.regs[reg][i] = FALSE], reg, i + 1)

SHR(m, reg, count, zr, tmp) ==
    IF count = 0 THEN
        Then(CMP([m EXCEPT !.SF = MSB(m.regs[reg])], reg, zr, tmp), LAMBDA m2 :
        [m2 EXCEPT !.CF = FALSE, !.OF = FALSE])
    ELSE IF count >= ARCHITECTURE THEN
        Then(MOV([m EXCEPT !.CF = m.regs[reg][0]], reg, zr), LAMBDA m2 :
        Then(CMP([m2 EXCEPT !.SF = FALSE], reg, zr, tmp), LAMBDA m4 :
        [m4 EXCEPT !.OF = FALSE]))
    ELSE
        Then(SHR_move([m EXCEPT !.CF = m.regs[reg][count - 1]], reg, count, 0), LAMBDA m2 :
        Then(SHR_clear(m2, reg, ARCHITECTURE - count), LAMBDA m3 :
        Then(CMP([m3 EXCEPT !.SF = MSB(m3.regs[reg])], reg, zr, tmp), LAMBDA m5 :
        [m5 EXCEPT !.OF = FALSE])))

\* SAR: as SHR, the vacated bits set to the sign read before the shift.
RECURSIVE SAR_move(_, _, _, _)
SAR_move(m, reg, count, i) ==
    IF i >= ARCHITECTURE - count THEN m
    ELSE SAR_move([m EXCEPT !.regs[reg][i] = m.regs[reg][i + count]], reg, count, i + 1)

RECURSIVE SAR_fill(_, _, _, _)
SAR_fill(m, reg, sign, i) ==
    IF i >= ARCHITECTURE THEN m
    ELSE SAR_fill([m EXCEPT !.regs[reg][i] = sign], reg, sign, i + 1)

\* SAR that clears the vacated bits, as SHR does
SAR_FillsZero(m, reg, count, zr, tmp) ==
    IF count = 0 THEN
        Then(CMP([m EXCEPT !.SF = MSB(m.regs[reg])], reg, zr, tmp), LAMBDA m2 :
        [m2 EXCEPT !.CF = FALSE, !.OF = FALSE])
    ELSE
        LET sign == MSB(m.regs[reg])
        IN  IF count >= ARCHITECTURE THEN
                Then(SAR_fill([m EXCEPT !.CF = m.regs[reg][0]], reg, sign, 0), LAMBDA m2 :
                Then(CMP([m2 EXCEPT !.SF = sign], reg, zr, tmp), LAMBDA m4 :
                [m4 EXCEPT !.OF = FALSE]))
            ELSE
                Then(SAR_move([m EXCEPT !.CF = m.regs[reg][count - 1]], reg, count, 0), LAMBDA m2 :
                Then(SAR_fill(m2, reg, FALSE, ARCHITECTURE - count), LAMBDA m3 :
                Then(CMP([m3 EXCEPT !.SF = MSB(m3.regs[reg])], reg, zr, tmp), LAMBDA m5 :
                [m5 EXCEPT !.OF = FALSE])))

SAR(m, reg, count, zr, tmp) ==
    IF count = 0 THEN
        Then(CMP([m EXCEPT !.SF = MSB(m.regs[reg])], reg, zr, tmp), LAMBDA m2 :
        [m2 EXCEPT !.CF = FALSE, !.OF = FALSE])
    ELSE
        LET sign == MSB(m.regs[reg])
        IN  IF count >= ARCHITECTURE THEN
                Then(SAR_fill([m EXCEPT !.CF = m.regs[reg][0]], reg, sign, 0), LAMBDA m2 :
                Then(CMP([m2 EXCEPT !.SF = sign], reg, zr, tmp), LAMBDA m4 :
                [m4 EXCEPT !.OF = FALSE]))
            ELSE
                Then(SAR_move([m EXCEPT !.CF = m.regs[reg][count - 1]], reg, count, 0), LAMBDA m2 :
                Then(SAR_fill(m2, reg, sign, ARCHITECTURE - count), LAMBDA m3 :
                Then(CMP([m3 EXCEPT !.SF = MSB(m3.regs[reg])], reg, zr, tmp), LAMBDA m5 :
                [m5 EXCEPT !.OF = FALSE])))

\* ROL: count %= ARCHITECTURE, then count one-bit rotations; each saves the
\* MSB, moves reg[i - 1] to reg[i] from the top down, and puts the saved bit
\* into reg[0] and CF.
RECURSIVE ROL_shift(_, _, _)
ROL_shift(m, reg, i) ==
    IF i <= 0 THEN m
    ELSE ROL_shift([m EXCEPT !.regs[reg][i] = m.regs[reg][i - 1]], reg, i - 1)

RECURSIVE ROL_loop(_, _, _, _)
ROL_loop(m, reg, count, c) ==
    IF c >= count THEN m
    ELSE LET msb == m.regs[reg][ARCHITECTURE - 1]
         IN  Then(ROL_shift(m, reg, ARCHITECTURE - 1), LAMBDA m1 :
             Then([m1 EXCEPT !.regs[reg][0] = msb, !.CF = msb], LAMBDA m2 :
             ROL_loop(m2, reg, count, c + 1)))

\* ROL with the count reduced modulo ARCHITECTURE - 1
ROL_ReducesByWidthLessOne(m, reg, count0, zr, tmp) ==
    LET count == count0 % (ARCHITECTURE - 1)
    IN  IF count = 0 THEN
            Then(CMP([m EXCEPT !.SF = MSB(m.regs[reg])], reg, zr, tmp), LAMBDA m2 :
            [m2 EXCEPT !.CF = FALSE, !.OF = FALSE])
        ELSE
            Then(ROL_loop(m, reg, count, 0), LAMBDA m1 :
            Then(CMP([m1 EXCEPT !.SF = MSB(m1.regs[reg])], reg, zr, tmp), LAMBDA m3 :
            [m3 EXCEPT !.OF = IF count = 1 THEN BitXor(m3.SF, m3.CF) ELSE FALSE]))

ROL(m, reg, count0, zr, tmp) ==
    LET count == count0 % ARCHITECTURE
    IN  IF count = 0 THEN
            Then(CMP([m EXCEPT !.SF = MSB(m.regs[reg])], reg, zr, tmp), LAMBDA m2 :
            [m2 EXCEPT !.CF = FALSE, !.OF = FALSE])
        ELSE
            Then(ROL_loop(m, reg, count, 0), LAMBDA m1 :
            Then(CMP([m1 EXCEPT !.SF = MSB(m1.regs[reg])], reg, zr, tmp), LAMBDA m3 :
            [m3 EXCEPT !.OF = IF count = 1 THEN BitXor(m3.SF, m3.CF) ELSE FALSE]))

\* ROR: the mirror image, the saved LSB going into the MSB and CF.
RECURSIVE ROR_shift(_, _, _)
ROR_shift(m, reg, i) ==
    IF i >= ARCHITECTURE - 1 THEN m
    ELSE ROR_shift([m EXCEPT !.regs[reg][i] = m.regs[reg][i + 1]], reg, i + 1)

RECURSIVE ROR_loop(_, _, _, _)
ROR_loop(m, reg, count, c) ==
    IF c >= count THEN m
    ELSE LET lsb == m.regs[reg][0]
         IN  Then(ROR_shift(m, reg, 0), LAMBDA m1 :
             Then([m1 EXCEPT !.regs[reg][ARCHITECTURE - 1] = lsb, !.CF = lsb], LAMBDA m2 :
             ROR_loop(m2, reg, count, c + 1)))

\* ROR returning at once when the reduced count is zero
ROR_FullTurnReturnsEarly(m, reg, count0, zr, tmp) ==
    LET count == count0 % ARCHITECTURE
    IN  IF count = 0 THEN m
        ELSE
            Then(ROR_loop(m, reg, count, 0), LAMBDA m1 :
            Then(CMP([m1 EXCEPT !.SF = MSB(m1.regs[reg])], reg, zr, tmp), LAMBDA m3 :
            [m3 EXCEPT !.OF = IF count = 1
                              THEN BitXor(m3.regs[reg][ARCHITECTURE - 1],
                                          m3.regs[reg][ARCHITECTURE - 2])
                              ELSE FALSE]))

ROR(m, reg, count0, zr, tmp) ==
    LET count == count0 % ARCHITECTURE
    IN  IF count = 0 THEN
            Then(CMP([m EXCEPT !.SF = MSB(m.regs[reg])], reg, zr, tmp), LAMBDA m2 :
            [m2 EXCEPT !.CF = FALSE, !.OF = FALSE])
        ELSE
            Then(ROR_loop(m, reg, count, 0), LAMBDA m1 :
            Then(CMP([m1 EXCEPT !.SF = MSB(m1.regs[reg])], reg, zr, tmp), LAMBDA m3 :
            [m3 EXCEPT !.OF = IF count = 1
                              THEN BitXor(m3.regs[reg][ARCHITECTURE - 1],
                                          m3.regs[reg][ARCHITECTURE - 2])
                              ELSE FALSE]))

\* MUL: temp takes lhs, lhs is cleared from zero; for each bit of rhs, from
\* bit 0 up, ADD(lhs, temp) when the bit is set, then SHL(temp, 1, zero, temp).
RECURSIVE MUL_loop(_, _, _, _, _, _)
MUL_loop(m, lhs, rhs, tmp, zr, i) ==
    IF i >= ARCHITECTURE THEN m
    ELSE IF m.regs[rhs][i]
         THEN MUL_loop(SHL(ADD(m, lhs, tmp), tmp, 1, zr, tmp), lhs, rhs, tmp, zr, i + 1)
         ELSE MUL_loop(SHL(m, tmp, 1, zr, tmp), lhs, rhs, tmp, zr, i + 1)

\* MUL that accumulates onto lhs without clearing it first
MUL_NoClear(m, lhs, rhs, tmp, zr) ==
    Then(MOV(m, tmp, lhs), LAMBDA m1 :
    MUL_loop(m1, lhs, rhs, tmp, zr, 0))

MUL(m, lhs, rhs, tmp, zr) ==
    Then(MOV(m, tmp, lhs), LAMBDA m1 :
    Then(MOV(m1, lhs, zr), LAMBDA m2 :
    MUL_loop(m2, lhs, rhs, tmp, zr, 0)))

\* DIV: the while (true) loop.  Each iteration is one SUB(temp, rhs); a
\* borrow ends the loop after ADD(temp, rhs), otherwise INC(quotient).
\* n counts the iterations.
RECURSIVE DIV_loop(_, _, _, _, _)
DIV_loop(m, rhs, q, tmp, n) ==
    LET m1 == SUB(m, tmp, rhs)
    IN  IF m1.CF THEN [m |-> ADD(m1, tmp, rhs), n |-> n + 1]
        ELSE DIV_loop(INC(m1, q), rhs, q, tmp, n + 1)

\* DIV that counts on top of whatever the quotient register held
DIV_StaleQuotient(m, lhs, rhs, q, tmp, zr) ==
    Then(CMP(m, rhs, zr, tmp), LAMBDA m0 :
    IF m0.ZF THEN
        [MOV(m0, lhs, zr) EXCEPT !.ZF = TRUE, !.CF = TRUE, !.OF = TRUE, !.SF = FALSE]
    ELSE
        Then(MOV(m0, tmp, lhs), LAMBDA m2 :
        Then(DIV_loop(m2, rhs, q, tmp, 0).m, LAMBDA m3 :
        Then(MOV(m3, lhs, q), LAMBDA m4 :
        Then(CMP([m4 EXCEPT !.SF = MSB(m4.regs[lhs])], lhs, zr, tmp), LAMBDA m6 :
        [m6 EXCEPT !.CF = FALSE, !.OF = FALSE])))))

\* DIV that clears the quotient register before testing the divisor
DIV_ClearsQuotientFirst(m, lhs, rhs, q, tmp, zr) ==
    Then(MOV(m, q, zr), LAMBDA mq :
    Then(CMP(mq, rhs, zr, tmp), LAMBDA m0 :
    IF m0.ZF THEN
        [MOV(m0, lhs, zr) EXCEPT !.ZF = TRUE, !.CF = TRUE, !.OF = TRUE, !.SF = FALSE]
    ELSE
        Then(MOV(m0, tmp, lhs), LAMBDA m2 :
        Then(DIV_loop(m2, rhs, q, tmp, 0).m, LAMBDA m3 :
        Then(MOV(m3, lhs, q), LAMBDA m4 :
        Then(CMP([m4 EXCEPT !.SF = MSB(m4.regs[lhs])], lhs, zr, tmp), LAMBDA m6 :
        [m6 EXCEPT !.CF = FALSE, !.OF = FALSE]))))))

\* DIV without the final comparison of the quotient with zero
DIV_NoFinalCompare(m, lhs, rhs, q, tmp, zr) ==
    Then(CMP(m, rhs, zr, tmp), LAMBDA m0 :
    IF m0.ZF THEN
        [MOV(m0, lhs, zr) EXCEPT !.ZF = TRUE, !.CF = TRUE, !.OF = TRUE, !.SF = FALSE]
    ELSE
        Then(MOV(m0, q, zr), LAMBDA m1 :
        Then(MOV(m1, tmp, lhs), LAMBDA m2 :
        Then(DIV_loop(m2, rhs, q, tmp, 0).m, LAMBDA m3 :
        Then(MOV(m3, lhs, q), LAMBDA m4 :
        [m4 EXCEPT !.SF = MSB(m4.regs[lhs]), !.CF = FALSE, !.OF = FALSE])))))

\* DIV that clears the destination for a zero divisor without raising the
\* flags
DIV_ZeroDivisorSilent(m, lhs, rhs, q, tmp, zr) ==
    Then(CMP(m, rhs, zr, tmp), LAMBDA m0 :
    IF m0.ZF THEN MOV(m0, lhs, zr)
    ELSE
        Then(MOV(m0, q, zr), LAMBDA m1 :
        Then(MOV(m1, tmp, lhs), LAMBDA m2 :
        Then(DIV_loop(m2, rhs, q, tmp, 0).m, LAMBDA m3 :
        Then(MOV(m3, lhs, q), LAMBDA m4 :
        Then(CMP([m4 EXCEPT !.SF = MSB(m4.regs[lhs])], lhs, zr, tmp), LAMBDA m6 :
        [m6 EXCEPT !.CF = FALSE, !.OF = FALSE]))))))

DIV(m, lhs, rhs, q, tmp, zr) ==
    Then(CMP(m, rhs, zr, tmp), LAMBDA m0 :
    IF m0.ZF THEN
        [MOV(m0, lhs, zr) EXCEPT !.ZF = TRUE, !.CF = TRUE, !.OF = TRUE, !.SF = FALSE]
    ELSE
        Then(MOV(m0, q, zr), LAMBDA m1 :
        Then(MOV(m1, tmp, lhs), LAMBDA m2 :
        Then(DIV_loop(m2, rhs, q, tmp, 0).m, LAMBDA m3 :
        Then(MOV(m3, lhs, q), LAMBDA m4 :
        Then(CMP([m4 EXCEPT !.SF = MSB(m4.regs[lhs])], lhs, zr, tmp), LAMBDA m6 :
        [m6 EXCEPT !.CF = FALSE, !.OF = FALSE]))))))

(***************************************************************************)
(* Behaviours: the operand registers are loaded with two values, then ALU  *)
(* operations are called on them.  A fresh ALU has all four flags false    *)
(* and fresh registers are all-zero.                                       *)
(***************************************************************************)
Values == (-Pow2(ARCHITECTURE - 1)) .. (Pow2(ARCHITECTURE - 1) - 1)

Fresh(ids) ==
    [regs |-> [r \in ids |-> ZeroRegister],
     CF |-> FALSE, ZF |-> FALSE, SF |-> FALSE, OF |-> FALSE]

Init ==
    /\ ARCHITECTURE = ModelArchitecture
    /\ \E a \in Values, b \in Values :
          LET m == MOVI(MOVI(Fresh(RegIds), 0, a), 1, b)
          IN  /\ regs = m.regs
              /\ CF = m.CF /\ ZF = m.ZF /\ SF = m.SF /\ OF = m.OF
    /\ hist = <<>>

\* One call: the machine becomes m and the call is recorded.
Call(op, lhs, rhs, m) ==
    /\ Len(hist) < MaxCalls
    /\ regs' = m.regs
    /\ CF' = m.CF /\ ZF' = m.ZF /\ SF' = m.SF /\ OF' = m.OF
    /\ hist' = Append(hist, [op |-> op, lhs |-> lhs, rhs |-> rhs, pre |-> Machine])
    /\ UNCHANGED ARCHITECTURE

DoADD == \E l \in Operands, r \in Operands : Call("ADD", l, r, ADD(Machine, l, r))
DoSUB == \E l \in Operands, r \in Operands : Call("SUB", l, r, SUB(Machine, l, r))
\* the one-operand operations are called on register 0
DoINC == Call("INC", 0, 0, INC(Machine, 0))
DoDEC == Call("DEC", 0, 0, DEC(Machine, 0))
DoNEG == Call("NEG", 0, 0, NEG(Machine, 0, temp, zero))

Next == DoADD \/ DoSUB \/ DoINC \/ DoDEC \/ DoNEG

Spec == Init /\ [][Next]_vars

(***************************************************************************)
(* Reading the history.                                                    *)
(***************************************************************************)
Calls == DOMAIN hist

\* the machine right after call i returned
Post(i) == IF i < Len(hist) THEN hist[i + 1].pre ELSE Machine

\* the value range of a signed ARCHITECTURE-bit integer
INT_MIN == -Pow2(ARCHITECTURE - 1)
INT_MAX == Pow2(ARCHITECTURE - 1) - 1
InSignedRange(v) == INT_MIN <= v /\ v <= INT_MAX

SameFlags(m1, m2) == m1.CF = m2.CF /\ m1.ZF = m2.ZF /\ m1.SF = m2.SF /\ m1.OF = m2.OF

(***************************************************************************)
(* ADD and SUB                                                             *)
(***************************************************************************)
\* C1: after ADD(lhs = a, rhs = b), lhs holds (a + b) mod 2^W, CF is true
\* exactly when the unsigned sum a + b is >= 2^W, and rhs (a register other
\* than lhs) is unchanged.
C1_AddSumAndCarry ==
    \A i \in Calls : hist[i].op = "ADD" =>
        LET c == hist[i]
            a == ToUnsigned(c.pre.regs[c.lhs])
            b == ToUnsigned(c.pre.regs[c.rhs])
        IN  /\ ToUnsigned(Post(i).regs[c.lhs]) = (a + b) % Pow2(ARCHITECTURE)
            /\ Post(i).CF = (a + b >= Pow2(ARCHITECTURE))
            /\ c.lhs # c.rhs => Post(i).regs[c.rhs] = c.pre.regs[c.rhs]

\* an ADD of two distinct registers that carried out of the MSB and left a
\* non-zero sum
C1_Witness ==
    \E i \in Calls :
        /\ hist[i].op = "ADD" /\ hist[i].lhs # hist[i].rhs
        /\ Post(i).CF /\ ~Post(i).ZF
        /\ ToUnsigned(hist[i].pre.regs[hist[i].rhs]) > 1

\* C2: after SUB(lhs = a, rhs = b), lhs holds (a - b) mod 2^W, CF is true
\* exactly when unsigned(a) < unsigned(b) (a borrow), and rhs (a register
\* other than lhs) is unchanged.
C2_SubDifferenceAndBorrow ==
    \A i \in Calls : hist[i].op = "SUB" =>
        LET c == hist[i]
            a == ToUnsigned(c.pre.regs[c.lhs])
            b == ToUnsigned(c.pre.regs[c.rhs])
        IN  /\ ToUnsigned(Post(i).regs[c.lhs]) = (a - b) % Pow2(ARCHITECTURE)
            /\ Post(i).CF = (a < b)
            /\ c.lhs # c.rhs => Post(i).regs[c.rhs] = c.pre.regs[c.rhs]

\* a SUB of two distinct registers that borrowed
C2_Witness ==
    \E i \in Calls :
        /\ hist[i].op = "SUB" /\ hist[i].lhs # hist[i].rhs
        /\ Post(i).CF
        /\ ToUnsigned(hist[i].pre.regs[hist[i].lhs]) > 0

\* C3: OF after ADD(a, b) is true exactly when the signed sum a + b lies
\* outside [-2^(W-1), 2^(W-1) - 1], and OF after SUB(a, b) exactly when the
\* signed difference a - b lies outside it; ADD(INT_MAX, 1) yields the
\* INT_MIN pattern with OF = SF = 1 and SUB(INT_MIN, 1) yields the INT_MAX
\* pattern with OF = 1.
C3_SignedOverflow ==
    \A i \in Calls : hist[i].op \in {"ADD", "SUB"} =>
        LET c == hist[i]
            a == ToSigned(c.pre.regs[c.lhs])
            b == ToSigned(c.pre.regs[c.rhs])
            exact == IF c.op = "ADD" THEN a + b ELSE a - b
            res == ToSigned(Post(i).regs[c.lhs])
        IN  /\ Post(i).OF = ~InSignedRange(exact)
            /\ (c.op = "ADD" /\ a = INT_MAX /\ b = 1) =>
                   (res = INT_MIN /\ Post(i).OF /\ Post(i).SF)
            /\ (c.op = "SUB" /\ a = INT_MIN /\ b = 1) =>
                   (res = INT_MAX /\ Post(i).OF)

\* ADD(INT_MAX, 1) followed by SUB(INT_MIN, 1) on the same registers
C3_Witness ==
    /\ Len(hist) >= 2
    /\ hist[1].op = "ADD" /\ hist[1].lhs # hist[1].rhs
    /\ ToSigned(hist[1].pre.regs[hist[1].lhs]) = INT_MAX
    /\ ToSigned(hist[1].pre.regs[hist[1].rhs]) = 1
    /\ hist[2].op = "SUB" /\ hist[2].lhs = hist[1].lhs /\ hist[2].rhs = hist[1].rhs
    /\ ToSigned(hist[2].pre.regs[hist[2].lhs]) = INT_MIN
    /\ Post(2).OF

\* C4: with a and b in distinct registers, ADD(x, b) with x = a followed by
\* SUB(x, b) leaves x equal to a.
C4_AddThenSubRestores ==
    \A i \in Calls :
        (/\ i < Len(hist)
         /\ hist[i].op = "ADD" /\ hist[i + 1].op = "SUB"
         /\ hist[i].lhs # hist[i].rhs
         /\ hist[i + 1].lhs = hist[i].lhs /\ hist[i + 1].rhs = hist[i].rhs)
        => Post(i + 1).regs[hist[i].lhs] = hist[i].pre.regs[hist[i].lhs]

\* ADD then SUB of the same distinct registers, where the ADD wrapped around
C4_Witness ==
    \E i \in Calls :
        /\ i < Len(hist)
        /\ hist[i].op = "ADD" /\ hist[i + 1].op = "SUB"
        /\ hist[i].lhs # hist[i].rhs
        /\ hist[i + 1].lhs = hist[i].lhs /\ hist[i + 1].rhs = hist[i].rhs
        /\ Post(i).CF /\ Post(i).OF

\* C5: ADD with lhs = a, rhs = b and ADD with lhs = b, rhs = a produce the
\* same result register and the same CF, ZF, SF, OF.
C5_AddCommutes ==
    \A i \in Calls : (hist[i].op = "ADD" /\ hist[i].lhs # hist[i].rhs) =>
        LET c == hist[i]
            swapped == ADD(c.pre, c.rhs, c.lhs)
        IN  /\ Post(i).regs[c.lhs] = swapped.regs[c.rhs]
            /\ SameFlags(Post(i), swapped)

\* an ADD of two different values whose sum overflowed
C5_Witness ==
    \E i \in Calls :
        /\ hist[i].op = "ADD" /\ hist[i].lhs # hist[i].rhs
        /\ hist[i].pre.regs[hist[i].lhs] # hist[i].pre.regs[hist[i].rhs]
        /\ Post(i).OF

(***************************************************************************)
(* INC and DEC                                                             *)
(***************************************************************************)
\* C6: DEC(reg = x) leaves reg equal to (x - 1) mod 2^W and sets OF exactly
\* when x is the minimum representable value (prior MSB 1, resulting MSB 0).
\* The code adds all-ones with carry-in 1, which adds 0: every bit's sum is
\* the bit itself and every carry is 1, so this fails for every x.
C6_DecDecrements ==
    \A i \in Calls : hist[i].op = "DEC" =>
        LET x == hist[i].pre.regs[hist[i].lhs]
        IN  /\ ToUnsigned(Post(i).regs[hist[i].lhs])
                   = (ToUnsigned(x) - 1) % Pow2(ARCHITECTURE)
            /\ Post(i).OF = (ToSigned(x) = INT_MIN)

\* C7: INC(reg = x) leaves reg equal to (x + 1) mod 2^W wherever the carry
\* chain stops, and sets OF exactly when x is the maximum positive value
\* (prior MSB 0, resulting MSB 1).
C7_IncIncrements ==
    \A i \in Calls : hist[i].op = "INC" =>
        LET x == hist[i].pre.regs[hist[i].lhs]
        IN  /\ ToUnsigned(Post(i).regs[hist[i].lhs])
                   = (ToUnsigned(x) + 1) % Pow2(ARCHITECTURE)
            /\ Post(i).OF = (ToSigned(x) = INT_MAX)

\* two INCs of one register: the first stops at bit 0 (x even), the second
\* ripples up to the MSB and overflows
C7_Witness ==
    /\ Len(hist) >= 2
    /\ hist[1].op = "INC" /\ hist[2].op = "INC" /\ hist[1].lhs = hist[2].lhs
    /\ ~hist[1].pre.regs[hist[1].lhs][0]
    /\ ~Post(1).OF
    /\ Post(2).OF /\ Post(2).SF

\* C8: INC(reg) followed by DEC(reg) on the same register restores reg.
\* Fails with C6: DEC leaves the incremented value in place.
C8_IncThenDecRestores ==
    \A i \in Calls :
        (/\ i < Len(hist)
         /\ hist[i].op = "INC" /\ hist[i + 1].op = "DEC"
         /\ hist[i + 1].lhs = hist[i].lhs)
        => Post(i + 1).regs[hist[i].lhs] = hist[i].pre.regs[hist[i].lhs]

\* C9: CF after INC(reg) or DEC(reg) equals CF before the call.
C9_IncDecPreserveCF ==
    \A i \in Calls : hist[i].op \in {"INC", "DEC"} => Post(i).CF = hist[i].pre.CF

\* an INC that wraps all-ones to zero while CF, set by the call before it,
\* stays set
C9_Witness ==
    \E i \in Calls :
        /\ hist[i].op = "INC"
        /\ hist[i].pre.CF
        /\ \A k \in BitIndex : hist[i].pre.regs[hist[i].lhs][k]
        /\ Post(i).ZF /\ Post(i).CF

(***************************************************************************)
(* NEG                                                                     *)
(***************************************************************************)
\* C10: with zero all-zero and temp distinct from reg and zero,
\* NEG(reg = x, temp, zero) leaves reg equal to (-x) mod 2^W and CF true
\* exactly when x was non-zero; NEG applied twice restores x.
C10_NegNegates ==
    \A i \in Calls : (hist[i].op = "NEG" /\ hist[i].pre.regs[zero] = ZeroRegister) =>
        LET c == hist[i]
            x == c.pre.regs[c.lhs]
        IN  /\ ToUnsigned(Post(i).regs[c.lhs]) = (-ToUnsigned(x)) % Pow2(ARCHITECTURE)
            /\ Post(i).CF = (x # ZeroRegister)
            /\ (i < Len(hist) /\ hist[i + 1].op = "NEG" /\ hist[i + 1].lhs = c.lhs)
                   => Post(i + 1).regs[c.lhs] = x

\* NEG applied twice to a non-zero value other than the minimum
C10_Witness ==
    /\ Len(hist) >= 2
    /\ hist[1].op = "NEG" /\ hist[2].op = "NEG" /\ hist[1].lhs = hist[2].lhs
    /\ hist[1].pre.regs[hist[1].lhs] # ZeroRegister
    /\ hist[1].pre.regs[hist[1].lhs] # Post(1).regs[hist[1].lhs]
    /\ Post(1).CF /\ Post(2).CF

\* C11: NEG sets OF exactly when the operand is the minimum representable
\* value (1000...0): NEG(min) leaves reg equal to min with OF = true, and
\* for every other operand OF = false after NEG.
\* The code computes OF = reg.MSB() && ZF after CMP(reg, zero, temp), and a
\* register whose MSB is set is never zero, so OF is false after every NEG.
C11_NegOverflowOnlyForMin ==
    \A i \in Calls : (hist[i].op = "NEG" /\ hist[i].pre.regs[zero] = ZeroRegister) =>
        LET x == hist[i].pre.regs[hist[i].lhs]
        IN  /\ Post(i).OF = (ToSigned(x) = INT_MIN)
            /\ ToSigned(x) = INT_MIN => Post(i).regs[hist[i].lhs] = x

(***************************************************************************)
(* MUL and DIV.  Register 0 is multiplied or divided by register 1, with   *)
(* temp, zero and a quotient register as scratch.  The operands are every  *)
(* pair of values at the model width, or literals of the demonstration     *)
(* program at a width that holds them; the scratch registers start with    *)
(* all-zero or all-one contents left by earlier use.  DIV is called on     *)
(* operands for which its loop ends within MaxIterations iterations, which *)
(* is every pair at the model width.                                       *)
(***************************************************************************)
ExampleArchitecture == 8
MaxIterations == 16
quotient == 2
DivRegIds == RegIds \cup {quotient}
Literals == {0, 4, 6, 7, 42}
ScratchValues == {0, -1}
OperandValues == IF ARCHITECTURE = ExampleArchitecture THEN Literals ELSE Values

InitMulDiv ==
    /\ ARCHITECTURE \in {ModelArchitecture, ExampleArchitecture}
    /\ \E a \in OperandValues, b \in OperandValues,
          s \in ScratchValues, t \in ScratchValues :
          LET m == MOVI(MOVI(MOVI(MOVI(Fresh(DivRegIds), 0, a), 1, b), temp, s), quotient, t)
          IN  /\ regs = m.regs
              /\ CF = m.CF /\ ZF = m.ZF /\ SF = m.SF /\ OF = m.OF
    /\ hist = <<>>

DoMUL == Call("MUL", 0, 1, MUL(Machine, 0, 1, temp, zero))
DoDIV ==
    /\ \/ regs[1] = ZeroRegister
       \/ ToUnsigned(regs[0]) < MaxIterations * ToUnsigned(regs[1])
    /\ Call("DIV", 0, 1, DIV(Machine, 0, 1, quotient, temp, zero))

NextMulDiv == DoMUL \/ DoDIV

SpecMulDiv == InitMulDiv /\ [][NextMulDiv]_vars

\* C12: with a and b in distinct registers, zero all-zero and temp distinct
\* from them, MUL(lhs = a, rhs = b, temp, zero) leaves lhs equal to
\* (a * b) mod 2^W and rhs unchanged; MUL(6, 7) = 42 and MUL(0, b) = 0.
C12_MulProduct ==
    \A i \in Calls : (hist[i].op = "MUL" /\ hist[i].pre.regs[zero] = ZeroRegister) =>
        LET c == hist[i]
            a == ToUnsigned(c.pre.regs[c.lhs])
            b == ToUnsigned(c.pre.regs[c.rhs])
            p == ToUnsigned(Post(i).regs[c.lhs])
        IN  /\ p = (a * b) % Pow2(ARCHITECTURE)
            /\ Post(i).regs[c.rhs] = c.pre.regs[c.rhs]
            /\ (a = 6 /\ b = 7 /\ ARCHITECTURE >= 6) => p = 42
            /\ a = 0 => p = 0

\* MUL(6, 7) at the example width, returned with 42 in lhs
C12_Witness ==
    \E i \in Calls :
        /\ hist[i].op = "MUL" /\ ARCHITECTURE = ExampleArchitecture
        /\ ToUnsigned(hist[i].pre.regs[0]) = 6 /\ ToUnsigned(hist[i].pre.regs[1]) = 7
        /\ ToUnsigned(Post(i).regs[0]) = 42

\* C13: after MUL(lhs, rhs, temp, zero), ZF is true exactly when the product
\* written to lhs is all-zero and SF equals the product's MSB.
\* The flags the code leaves are those of the loop's last SHL(temp, 1, ...),
\* whose CMP describes temp, and temp is all-zero after ARCHITECTURE shifts:
\* ZF = 1 and SF = 0 after every MUL.
C13_MulFlagsDescribeProduct ==
    \A i \in Calls : (hist[i].op = "MUL" /\ hist[i].pre.regs[zero] = ZeroRegister) =>
        /\ Post(i).ZF = (Post(i).regs[hist[i].lhs] = ZeroRegister)
        /\ Post(i).SF = MSB(Post(i).regs[hist[i].lhs])

\* C14: for every dividend a and non-zero divisor b, in distinct registers,
\* with quotient, temp and zero distinct and zero all-zero, DIV leaves lhs
\* equal to floor(U(a) / U(b)), the unique q with q*U(b) <= U(a) < (q+1)*U(b),
\* and rhs unchanged; DIV(42, 4) = 10.
C14_DivQuotient ==
    \A i \in Calls :
        (/\ hist[i].op = "DIV"
         /\ hist[i].pre.regs[zero] = ZeroRegister
         /\ hist[i].pre.regs[hist[i].rhs] # ZeroRegister) =>
        LET c == hist[i]
            a == ToUnsigned(c.pre.regs[c.lhs])
            b == ToUnsigned(c.pre.regs[c.rhs])
            q == ToUnsigned(Post(i).regs[c.lhs])
        IN  /\ q * b <= a /\ a < (q + 1) * b
            /\ Post(i).regs[c.rhs] = c.pre.regs[c.rhs]
            /\ (a = 42 /\ b = 4) => q = 10

\* DIV(42, 4) at the example width, returned with 10 in lhs, the quotient register
\* having held all-ones before the call
C14_Witness ==
    \E i \in Calls :
        /\ hist[i].op = "DIV" /\ ARCHITECTURE = ExampleArchitecture
        /\ ToUnsigned(hist[i].pre.regs[0]) = 42 /\ ToUnsigned(hist[i].pre.regs[1]) = 4
        /\ hist[i].pre.regs[quotient] # ZeroRegister
        /\ ToUnsigned(Post(i).regs[0]) = 10

\* C15: when the divisor equals the zero register, DIV returns with lhs
\* all-zero, ZF = CF = OF = true and SF = false, for every dividend and
\* every prior flag state, and leaves the quotient register untouched.
C15_DivByZeroSignalled ==
    \A i \in Calls :
        (/\ hist[i].op = "DIV"
         /\ hist[i].pre.regs[zero] = ZeroRegister
         /\ hist[i].pre.regs[hist[i].rhs] = hist[i].pre.regs[zero]) =>
        /\ Post(i).regs[hist[i].lhs] = ZeroRegister
        /\ Post(i).ZF /\ Post(i).CF /\ Post(i).OF /\ ~Post(i).SF
        /\ Post(i).regs[quotient] = hist[i].pre.regs[quotient]

\* a division of a non-zero dividend by zero, made after an earlier call,
\* while the quotient register holds a non-zero pattern
C15_Witness ==
    \E i \in Calls :
        /\ i > 1
        /\ hist[i].op = "DIV"
        /\ hist[i].pre.regs[1] = ZeroRegister
        /\ hist[i].pre.regs[quotient] # ZeroRegister
        /\ Post(i).regs[0] = ZeroRegister /\ Post(i).ZF /\ Post(i).CF /\ Post(i).OF

(***************************************************************************)
(* Shifts and rotates.  Register 0 holds every value of the model width,   *)
(* or a literal of the demonstration program at the example width; it is   *)
(* shifted or rotated by a count that is small, reaches or passes the      *)
(* width, or is the largest a uint8_t holds.  Calls after the first one    *)
(* repeat the first call's count, as ROL(x, k) then ROR(result, k) does.   *)
(***************************************************************************)
MaxCount == 5
UINT8_MAX == 255
Counts == (0 .. MaxCount) \cup {UINT8_MAX}
ShiftLiterals == {9, 128, 170}
ShiftValues == IF ARCHITECTURE = ExampleArchitecture THEN ShiftLiterals ELSE Values

InitShift ==
    /\ ARCHITECTURE \in {ModelArchitecture, ExampleArchitecture}
    /\ \E x \in ShiftValues, s \in ScratchValues :
          LET m == MOVI(MOVI(Fresh(RegIds), 0, x), temp, s)
          IN  /\ regs = m.regs
              /\ CF = m.CF /\ ZF = m.ZF /\ SF = m.SF /\ OF = m.OF
    /\ hist = <<>>

NextCounts == IF hist = <<>> THEN Counts ELSE {hist[1].count}

CallCount(op, reg, count, m) ==
    /\ Len(hist) < MaxCalls
    /\ regs' = m.regs
    /\ CF' = m.CF /\ ZF' = m.ZF /\ SF' = m.SF /\ OF' = m.OF
    /\ hist' = Append(hist, [op |-> op, lhs |-> reg, count |-> count, pre |-> Machine])
    /\ UNCHANGED ARCHITECTURE

DoSHL == \E c \in NextCounts : CallCount("SHL", 0, c, SHL(Machine, 0, c, zero, temp))
DoSHR == \E c \in NextCounts : CallCount("SHR", 0, c, SHR(Machine, 0, c, zero, temp))
DoSAR == \E c \in NextCounts : CallCount("SAR", 0, c, SAR(Machine, 0, c, zero, temp))
DoROL == \E c \in NextCounts : CallCount("ROL", 0, c, ROL(Machine, 0, c, zero, temp))
DoROR == \E c \in NextCounts : CallCount("ROR", 0, c, ROR(Machine, 0, c, zero, temp))

NextShift == DoSHL \/ DoSHR \/ DoSAR \/ DoROL \/ DoROR

SpecShift == InitShift /\ [][NextShift]_vars

\* the register a call works on, before and after it
Before(i) == hist[i].pre.regs[hist[i].lhs]
After(i) == Post(i).regs[hist[i].lhs]

\* C16: for every value x and count c >= 1 (zero all-zero, temp another
\* register), SHL leaves (x * 2^c) mod 2^W, SHR leaves floor(U(x) / 2^c), SAR
\* leaves x's bits moved down by c with every vacated high bit equal to x's
\* sign bit; for c >= W the result is all-zero for SHL and SHR and all
\* sign bits for SAR.
C16_ShiftValues ==
    \A i \in Calls :
        (/\ hist[i].op \in {"SHL", "SHR", "SAR"}
         /\ hist[i].count >= 1
         /\ hist[i].pre.regs[zero] = ZeroRegister) =>
        LET c == hist[i].count
            x == Before(i)
            r == After(i)
        IN  /\ hist[i].op = "SHL" =>
                   IF c >= ARCHITECTURE THEN r = ZeroRegister
                   ELSE ToUnsigned(r) = (ToUnsigned(x) * Pow2(c)) % Pow2(ARCHITECTURE)
            /\ hist[i].op = "SHR" =>
                   IF c >= ARCHITECTURE THEN r = ZeroRegister
                   ELSE ToUnsigned(r) = ToUnsigned(x) \div Pow2(c)
            /\ hist[i].op = "SAR" =>
                   \A b \in BitIndex :
                       r[b] = IF b + c < ARCHITECTURE THEN x[b + c] ELSE MSB(x)

\* SAR of 0b10000000 by 2 at the example width, the literal being negative
\* there, returned with 0b11100000
C16_Witness ==
    \E i \in Calls :
        /\ hist[i].op = "SAR" /\ hist[i].count = 2
        /\ ARCHITECTURE = ExampleArchitecture
        /\ ToUnsigned(Before(i)) = 128 /\ MSB(Before(i))
        /\ ToUnsigned(After(i)) = 224

\* C17: after SHL, SHR or SAR with 1 <= count < W, CF equals the last bit
\* shifted out: the original bit W - count for SHL, the original bit
\* count - 1 for SHR and SAR.
\* In the code each shift sets CF so and then calls CMP(reg, zero, temp),
\* whose SUB(temp, zero) overwrites CF with "no borrow": CF is false after
\* every shift.
C17_ShiftCarryIsLastBitOut ==
    \A i \in Calls :
        (/\ hist[i].op \in {"SHL", "SHR", "SAR"}
         /\ 1 <= hist[i].count /\ hist[i].count < ARCHITECTURE
         /\ hist[i].pre.regs[zero] = ZeroRegister) =>
        Post(i).CF = IF hist[i].op = "SHL"
                     THEN Before(i)[ARCHITECTURE - hist[i].count]
                     ELSE Before(i)[hist[i].count - 1]

\* C18: after ROL or ROR with net rotation count mod W >= 1, CF equals the
\* last bit rotated out: for ROL the result's bit 0, for ROR the result's MSB.
\* As for the shifts, the CMP that ends ROL and ROR overwrites CF with false.
C18_RotateCarryIsLastBitOut ==
    \A i \in Calls :
        (/\ hist[i].op \in {"ROL", "ROR"}
         /\ hist[i].count % ARCHITECTURE >= 1
         /\ hist[i].pre.regs[zero] = ZeroRegister) =>
        Post(i).CF = IF hist[i].op = "ROL" THEN After(i)[0] ELSE MSB(After(i))

\* C19: for a 1-bit SHL and a ROL with net rotation of exactly 1 bit, OF
\* equals (result MSB) XOR (the bit that left the MSB), so OF is set exactly
\* when the sign bit changed; for SHL and ROL with any other count, and for
\* SHR and SAR with any count, OF is false.
\* The code computes OF = SF ^ CF after CMP has cleared CF (C17, C18), so
\* OF is the result's MSB alone.
C19_OneBitOverflow ==
    \A i \in Calls :
        (/\ hist[i].op \in {"SHL", "SHR", "SAR", "ROL"}
         /\ hist[i].pre.regs[zero] = ZeroRegister) =>
        LET one == \/ hist[i].op = "SHL" /\ hist[i].count = 1
                   \/ hist[i].op = "ROL" /\ hist[i].count % ARCHITECTURE = 1
        IN  Post(i).OF = IF one THEN BitXor(MSB(After(i)), MSB(Before(i))) ELSE FALSE

\* C20: for every value x and count k in 0 .. 255, ROL(reg, k) moves each
\* bit i to position (i + k) mod W, and ROR(reg, k) right after it restores
\* x; ROL(0b1001, 2) then ROR(result, 2) returns 0b1001.
C20_RotateRoundTrip ==
    \A i \in Calls :
        (hist[i].op = "ROL" /\ hist[i].pre.regs[zero] = ZeroRegister) =>
        /\ \A b \in BitIndex :
               After(i)[(b + hist[i].count) % ARCHITECTURE] = Before(i)[b]
        /\ (i + 1 \in Calls /\ hist[i + 1].op = "ROR"
                /\ hist[i + 1].count = hist[i].count) =>
               After(i + 1) = Before(i)

\* ROL(0b1001, 2) at the example width giving 0b100100, and the ROR by 2
\* after it giving 0b1001 again
C20_Witness ==
    \E i \in Calls :
        /\ hist[i].op = "ROL" /\ hist[i].count = 2
        /\ ARCHITECTURE = ExampleArchitecture
        /\ ToUnsigned(Before(i)) = 9 /\ ToUnsigned(After(i)) = 36
        /\ i + 1 \in Calls /\ hist[i + 1].op = "ROR" /\ hist[i + 1].count = 2
        /\ ToUnsigned(After(i + 1)) = 9

(***************************************************************************)
(* Arbitrary sequences of ALU calls.  Every operation of the class is      *)
(* called on registers 0 and 1 with the scratch registers the              *)
(* demonstration program binds (temp, zero) and a quotient register, so    *)
(* that each call starts from the registers and flags its predecessors     *)
(* left behind.                                                            *)
(***************************************************************************)
AluValues == {INT_MIN, -1, 0, 1, INT_MAX}
AluCounts == {0, 1, ARCHITECTURE}

InitAlu ==
    /\ ARCHITECTURE = ModelArchitecture
    /\ \E a \in AluValues, b \in AluValues :
          LET m == MOVI(MOVI(Fresh(DivRegIds), 0, a), 1, b)
          IN  /\ regs = m.regs
              /\ CF = m.CF /\ ZF = m.ZF /\ SF = m.SF /\ OF = m.OF
    /\ hist = <<>>

AluADD == Call("ADD", 0, 1, ADD(Machine, 0, 1))
AluSUB == Call("SUB", 0, 1, SUB(Machine, 0, 1))
AluINC == Call("INC", 0, 0, INC(Machine, 0))
AluDEC == Call("DEC", 0, 0, DEC(Machine, 0))
AluNEG == Call("NEG", 0, 0, NEG(Machine, 0, temp, zero))
AluMUL == Call("MUL", 0, 1, MUL(Machine, 0, 1, temp, zero))
AluDIV ==
    /\ \/ regs[1] = ZeroRegister
       \/ ToUnsigned(regs[0]) < MaxIterations * ToUnsigned(regs[1])
    /\ Call("DIV", 0, 1, DIV(Machine, 0, 1, quotient, temp, zero))
AluCMP == Call("CMP", 0, 1, CMP(Machine, 0, 1, temp))
AluSHL == \E c \in AluCounts : CallCount("SHL", 0, c, SHL(Machine, 0, c, zero, temp))
AluSHR == \E c \in AluCounts : CallCount("SHR", 0, c, SHR(Machine, 0, c, zero, temp))
AluSAR == \E c \in AluCounts : CallCount("SAR", 0, c, SAR(Machine, 0, c, zero, temp))
AluROL == \E c \in AluCounts : CallCount("ROL", 0, c, ROL(Machine, 0, c, zero, temp))
AluROR == \E c \in AluCounts : CallCount("ROR", 0, c, ROR(Machine, 0, c, zero, temp))

NextAlu ==
    \/ AluADD \/ AluSUB \/ AluINC \/ AluDEC \/ AluNEG \/ AluMUL \/ AluDIV
    \/ AluCMP \/ AluSHL \/ AluSHR \/ AluSAR \/ AluROL \/ AluROR

SpecAlu == InitAlu /\ [][NextAlu]_vars

Shifts == {"SHL", "SHR", "SAR"}
Rotates == {"ROL", "ROR"}

\* C21: a shift by zero, and a rotation by a multiple of the width, leaves
\* the register as it was, sets ZF and SF from that value and clears CF and
\* OF, whatever the flags were before the call.
C21_ZeroCountIsIdentity ==
    \A i \in Calls :
        (\/ hist[i].op \in Shifts /\ hist[i].count = 0
         \/ hist[i].op \in Rotates /\ hist[i].count % ARCHITECTURE = 0)
        => /\ After(i) = Before(i)
           /\ Post(i).ZF = (Before(i) = ZeroRegister)
           /\ Post(i).SF = MSB(Before(i))
           /\ ~Post(i).CF
           /\ ~Post(i).OF

\* a rotation by the full width of a non-zero register, entered with CF and
\* OF both set
C21_Witness ==
    \E i \in Calls :
        /\ hist[i].op \in Rotates
        /\ hist[i].count = ARCHITECTURE
        /\ hist[i].pre.CF /\ hist[i].pre.OF
        /\ Before(i) # ZeroRegister

\* C22: CMP with a scratch register distinct from its operands leaves both
\* operands as they were and sets CF, ZF, SF and OF as SUB(lhs, rhs) would
\* set them from the same state; ZF is set exactly when the operands hold
\* the same bit pattern.
C22_CmpIsSubWithoutResult ==
    \A i \in Calls :
        hist[i].op = "CMP"
        => LET pre == hist[i].pre
               lhs == hist[i].lhs
               rhs == hist[i].rhs
           IN  /\ Post(i).regs[lhs] = pre.regs[lhs]
               /\ Post(i).regs[rhs] = pre.regs[rhs]
               /\ SameFlags(Post(i), SUB(pre, lhs, rhs))
               /\ Post(i).ZF = (pre.regs[lhs] = pre.regs[rhs])

\* a comparison of a smaller with a larger value, the scratch register
\* holding neither
C22_Witness ==
    \E i \in Calls :
        /\ hist[i].op = "CMP"
        /\ ToUnsigned(hist[i].pre.regs[0]) < ToUnsigned(hist[i].pre.regs[1])
        /\ hist[i].pre.regs[temp] # hist[i].pre.regs[0]
        /\ hist[i].pre.regs[temp] # hist[i].pre.regs[1]
        /\ Post(i).CF

(***************************************************************************)
(* The combinational circuits on their own: three input bits are drawn,    *)
(* and each application of a circuit to them is recorded with its output.  *)
(***************************************************************************)
InitCircuits ==
    /\ ARCHITECTURE = ModelArchitecture
    /\ regs = Fresh(RegIds).regs
    /\ CF = FALSE /\ ZF = FALSE /\ SF = FALSE /\ OF = FALSE
    /\ \E x \in BOOLEAN, y \in BOOLEAN, c \in BOOLEAN :
          hist = <<[op |-> "bits", x |-> x, y |-> y, c |-> c]>>

Apply(op, out) ==
    /\ Len(hist) <= MaxCalls
    /\ hist' = Append(hist, [op |-> op, x |-> hist[1].x, y |-> hist[1].y,
                             c |-> hist[1].c, out |-> out])
    /\ UNCHANGED <<ARCHITECTURE, regs, CF, ZF, SF, OF>>

DoHALF_ADDER == Apply("HALF_ADDER", HALF_ADDER(hist[1].x, hist[1].y))
DoHALF_SUBTRACTOR == Apply("HALF_SUBTRACTOR", HALF_SUBTRACTOR(hist[1].x, hist[1].y))
DoFULL_ADDER == Apply("FULL_ADDER", FULL_ADDER(hist[1].x, hist[1].y, hist[1].c))
DoFULL_SUBTRACTOR ==
    Apply("FULL_SUBTRACTOR", FULL_SUBTRACTOR(hist[1].x, hist[1].y, hist[1].c))

NextCircuits == DoHALF_ADDER \/ DoHALF_SUBTRACTOR \/ DoFULL_ADDER \/ DoFULL_SUBTRACTOR

SpecCircuits == InitCircuits /\ [][NextCircuits]_vars

\* a bit as a number, and the row of a truth table for given inputs
Num(b) == IF b THEN 1 ELSE 0
Row2(x, y) == 2 * Num(x) + Num(y) + 1
Row3(x, y, c) == 4 * Num(x) + 2 * Num(y) + Num(c) + 1

\* C23: for all input bits the full adder's outputs satisfy
\* SUM + 2 * CARRY = x + y + c and the full subtractor's satisfy
\* DIFFERENCE - 2 * BORROW = x - y - b; the half adder and the half
\* subtractor satisfy the same equations without the third input; and every
\* output is the one the documented truth table lists for the inputs.
C23_CircuitsAreArithmetic ==
    \A i \in 2 .. Len(hist) :
        LET x == hist[i].x
            y == hist[i].y
            c == hist[i].c
            out == hist[i].out
        IN  /\ hist[i].op = "HALF_ADDER"
               => /\ Num(out.SUM) + 2 * Num(out.CARRY) = Num(x) + Num(y)
                  /\ out.SUM = HalfAdderSumTable[Row2(x, y)]
                  /\ out.CARRY = HalfAdderCarryTable[Row2(x, y)]
            /\ hist[i].op = "HALF_SUBTRACTOR"
               => /\ Num(out.DIFFERENCE) - 2 * Num(out.BORROW) = Num(x) - Num(y)
                  /\ out.DIFFERENCE = HalfSubtractorDifferenceTable[Row2(x, y)]
                  /\ out.BORROW = HalfSubtractorBorrowTable[Row2(x, y)]
            /\ hist[i].op = "FULL_ADDER"
               => /\ Num(out.SUM) + 2 * Num(out.CARRY) = Num(x) + Num(y) + Num(c)
                  /\ out.SUM = FullAdderSumTable[Row3(x, y, c)]
                  /\ out.CARRY = FullAdderCarryTable[Row3(x, y, c)]
            /\ hist[i].op = "FULL_SUBTRACTOR"
               => /\ Num(out.DIFFERENCE) - 2 * Num(out.BORROW) = Num(x) - Num(y) - Num(c)
                  /\ out.DIFFERENCE = FullSubtractorDifferenceTable[Row3(x, y, c)]
                  /\ out.BORROW = FullSubtractorBorrowTable[Row3(x, y, c)]

\* the full subtractor computing 0 - 1 - 1: it borrows and the difference
\* bit is zero
C23_Witness ==
    \E i \in 2 .. Len(hist) :
        /\ hist[i].op = "FULL_SUBTRACTOR"
        /\ ~hist[i].x /\ hist[i].y /\ hist[i].c
        /\ hist[i].out.BORROW /\ ~hist[i].out.DIFFERENCE

FlagSettingOps ==
    {"ADD", "SUB", "INC", "DEC", "NEG", "DIV", "SHL", "SHR", "SAR", "ROL", "ROR"}

\* C24: after any sequence of calls, immediately after each call of ADD,
\* SUB, INC, DEC, NEG, DIV, a shift or a rotation that was given an
\* all-zero zero register, ZF is set exactly when the destination register
\* is all zero and SF equals the destination's most significant bit.
C24_ZeroAndSignDescribeDestination ==
    \A i \in Calls :
        (hist[i].op \in FlagSettingOps /\ hist[i].pre.regs[zero] = ZeroRegister)
        => /\ Post(i).ZF = (After(i) = ZeroRegister)
           /\ Post(i).SF = MSB(After(i))

\* a division with a zero quotient following a call that left ZF clear and
\* SF set
C24_Witness ==
    \E i \in Calls :
        /\ hist[i].op = "DIV"
        /\ hist[i].pre.regs[1] # ZeroRegister
        /\ hist[i].pre.SF /\ ~hist[i].pre.ZF
        /\ After(i) = ZeroRegister
        /\ Post(i).ZF /\ ~Post(i).SF

(***************************************************************************)
(* DIV statement by statement.  The call DIV(regs[0], regs[1], quotient,   *)
(* temp, zero) is followed through its zero test, each iteration of its    *)
(* while (true) loop and its epilogue; hist records the statements         *)
(* executed, and the last record tells where control is.                   *)
(***************************************************************************)
DivPc == IF hist = <<>> THEN "call" ELSE hist[Len(hist)].op

Record(op, m) ==
    /\ regs' = m.regs
    /\ CF' = m.CF /\ ZF' = m.ZF /\ SF' = m.SF /\ OF' = m.OF
    /\ hist' = Append(hist, [op |-> op, lhs |-> 0, rhs |-> 1, pre |-> Machine])
    /\ UNCHANGED ARCHITECTURE

\* CMP(rhs, zero, temp); if (ZF) { MOV(lhs, zero); flags; return; }
DivByZero ==
    /\ DivPc = "call"
    /\ LET m0 == CMP(Machine, 1, zero, temp)
       IN  /\ m0.ZF
           /\ Record("zero", [MOV(m0, 0, zero) EXCEPT
                                 !.ZF = TRUE, !.CF = TRUE, !.OF = TRUE, !.SF = FALSE])

\* the prologue without the copy of the dividend into the working register
DivEnter_WithoutWorkingCopy ==
    /\ DivPc = "call"
    /\ LET m0 == CMP(Machine, 1, zero, temp)
       IN  /\ ~m0.ZF
           /\ Record("enter", MOV(m0, quotient, zero))

\* CMP(rhs, zero, temp); MOV(quotient, zero); MOV(temp, lhs)
DivEnter ==
    /\ DivPc = "call"
    /\ LET m0 == CMP(Machine, 1, zero, temp)
       IN  /\ ~m0.ZF
           /\ Record("enter", Then(MOV(m0, quotient, zero), LAMBDA m1 : MOV(m1, temp, 0)))

\* an iteration that subtracts without counting
DivSubtract_WithoutCounting ==
    /\ DivPc \in {"enter", "subtract"}
    /\ LET m1 == SUB(Machine, temp, 1)
       IN  /\ ~m1.CF
           /\ Record("subtract", m1)

\* one iteration: SUB(temp, rhs) does not borrow; INC(quotient)
DivSubtract ==
    /\ DivPc \in {"enter", "subtract"}
    /\ LET m1 == SUB(Machine, temp, 1)
       IN  /\ ~m1.CF
           /\ Record("subtract", INC(m1, quotient))

\* the last iteration: SUB(temp, rhs) borrows; ADD(temp, rhs); break
DivBreak ==
    /\ DivPc \in {"enter", "subtract"}
    /\ LET m1 == SUB(Machine, temp, 1)
       IN  /\ m1.CF
           /\ Record("break", ADD(m1, temp, 1))

\* MOV(lhs, quotient); SF = lhs.MSB(); CMP(lhs, zero, temp); CF = OF = false
DivReturn ==
    /\ DivPc = "break"
    /\ Record("return",
              Then(MOV(Machine, 0, quotient), LAMBDA m4 :
              Then(CMP([m4 EXCEPT !.SF = MSB(m4.regs[0])], 0, zero, temp), LAMBDA m6 :
              [m6 EXCEPT !.CF = FALSE, !.OF = FALSE])))

NextDivLoop == DivByZero \/ DivEnter \/ DivSubtract \/ DivBreak \/ DivReturn

SpecDivLoop == InitMulDiv /\ [][NextDivLoop]_vars

\* the operands the call was given, and the loop iterations executed so far
Dividend == ToUnsigned(hist[1].pre.regs[0])
Divisor == ToUnsigned(hist[1].pre.regs[1])
Subtractions == Cardinality({i \in Calls : hist[i].op = "subtract"})
Iterations == Cardinality({i \in Calls : hist[i].op \in {"subtract", "break"}})

\* C25 as stated: every call, DIV included, returns after a number of loop
\* iterations bounded by a small multiple of ARCHITECTURE whatever the
\* operands; for DIV's loop, at most twice ARCHITECTURE iterations.
C25_IterationsBoundedByWidth == Iterations <= 2 * ARCHITECTURE

\* C25 as amended: DIV's loop runs floor(U(lhs) / U(rhs)) + 1 times, a
\* number that depends on the operands and is bounded by 2^ARCHITECTURE.
C25_DivIterationsFollowQuotient ==
    DivPc = "return"
    => /\ Iterations = (Dividend \div Divisor) + 1
       /\ Iterations <= Pow2(ARCHITECTURE)

\* a division that returned after more than twice ARCHITECTURE iterations
C25_Witness ==
    /\ DivPc = "return"
    /\ Iterations > 2 * ARCHITECTURE
    /\ Divisor = 1

\* the statements of the loop executed so far
LoopSteps == {i \in Calls : hist[i].op \in {"subtract", "break"}}

\* C26: for a non-zero divisor DIV's loop terminates: every subtraction
\* that does not borrow leaves the working copy strictly smaller (as an
\* unsigned number), the loop is left at the first subtraction that
\* borrows, and the quotient counter is incremented exactly
\* floor(U(lhs) / U(rhs)) times, without wrapping.  The loop never makes
\* more subtractions than that quotient, so it cannot run for ever.
C26_DivLoopTerminates ==
    /\ \A i \in LoopSteps :
          LET before == ToUnsigned(hist[i].pre.regs[temp])
              borrow == SUB(hist[i].pre, temp, 1).CF
          IN  /\ borrow = (before < Divisor)
              /\ hist[i].op = "subtract"
                 => /\ ~borrow
                    /\ ToUnsigned(Post(i).regs[temp]) < before
                    /\ ToUnsigned(Post(i).regs[quotient])
                          = ToUnsigned(hist[i].pre.regs[quotient]) + 1
              /\ hist[i].op = "break"
                 => /\ borrow
                    /\ \A j \in LoopSteps : j < i => hist[j].op = "subtract"
                    /\ \A j \in LoopSteps : j <= i
    /\ hist # <<>> /\ Divisor # 0
       => /\ Subtractions <= Dividend \div Divisor
          /\ DivPc \in {"break", "return"}
             => /\ Subtractions = Dividend \div Divisor
                /\ ToUnsigned(regs[quotient]) = Subtractions

\* a division that left its loop after more than one subtraction
C26_Witness ==
    /\ DivPc = "return"
    /\ Subtractions > 1
    /\ ToUnsigned(regs[0]) = Subtractions

\* C27: immediately after any DIV call CF and OF are both true if the
\* divisor was zero and both false otherwise, whatever the flags were
\* before the call; so no division by a non-zero divisor leaves the
\* pattern ZF = CF = OF = 1, SF = 0 that signals division by zero.
C27_DivCarryAndOverflowTellZeroDivisor ==
    \A i \in Calls :
        hist[i].op = "DIV"
        => LET byZero == hist[i].pre.regs[hist[i].rhs] = ZeroRegister
           IN  /\ Post(i).CF = byZero
               /\ Post(i).OF = byZero
               /\ ~byZero => ~(Post(i).ZF /\ Post(i).CF /\ Post(i).OF /\ ~Post(i).SF)

\* a division by a non-zero divisor entered with CF and OF set, as a
\* division by zero leaves them, and returning with both clear
C27_Witness ==
    \E i \in Calls :
        /\ hist[i].op = "DIV"
        /\ hist[i].pre.regs[1] # ZeroRegister
        /\ hist[i].pre.CF /\ hist[i].pre.OF /\ hist[i].pre.ZF /\ ~hist[i].pre.SF
        /\ ~Post(i).CF /\ ~Post(i).OF

(***************************************************************************)
(* The operations that take scratch registers, run side by side: each call *)
(* is made on the machine as it is, and the same call is evaluated on      *)
(* copies of that machine whose scratch registers (temp, and the quotient  *)
(* register) hold other contents.  The outcome of a call is the            *)
(* destination register and the four flags.                                *)
(***************************************************************************)
Outcome(m) == [value |-> m.regs[0], CF |-> m.CF, ZF |-> m.ZF, SF |-> m.SF, OF |-> m.OF]

WithScratch(m, s, t) ==
    [m EXCEPT !.regs[temp] = RegisterOf(s), !.regs[quotient] = RegisterOf(t)]

SideBySide(op, arg, F(_)) ==
    /\ Len(hist) < MaxCalls
    /\ \E m \in {F(Machine)} :
          /\ regs' = m.regs
          /\ CF' = m.CF /\ ZF' = m.ZF /\ SF' = m.SF /\ OF' = m.OF
    /\ hist' = Append(hist,
                 [op |-> op, lhs |-> 0, arg |-> arg, pre |-> Machine,
                  alts |-> {Outcome(F(WithScratch(Machine, s, t))) :
                               s \in ScratchValues, t \in ScratchValues}])
    /\ UNCHANGED ARCHITECTURE

ScratchCMP == SideBySide("CMP", 1, LAMBDA m : CMP(m, 0, 1, temp))
ScratchNEG == SideBySide("NEG", 0, LAMBDA m : NEG(m, 0, temp, zero))
ScratchMUL == SideBySide("MUL", 1, LAMBDA m : MUL(m, 0, 1, temp, zero))
ScratchDIV ==
    /\ \/ regs[1] = ZeroRegister
       \/ ToUnsigned(regs[0]) < MaxIterations * ToUnsigned(regs[1])
    /\ SideBySide("DIV", 1, LAMBDA m : DIV(m, 0, 1, quotient, temp, zero))
ScratchSHL == \E c \in AluCounts : SideBySide("SHL", c, LAMBDA m : SHL(m, 0, c, zero, temp))
ScratchSHR == \E c \in AluCounts : SideBySide("SHR", c, LAMBDA m : SHR(m, 0, c, zero, temp))
ScratchSAR == \E c \in AluCounts : SideBySide("SAR", c, LAMBDA m : SAR(m, 0, c, zero, temp))
ScratchROL == \E c \in AluCounts : SideBySide("ROL", c, LAMBDA m : ROL(m, 0, c, zero, temp))
ScratchROR == \E c \in AluCounts : SideBySide("ROR", c, LAMBDA m : ROR(m, 0, c, zero, temp))

NextScratch ==
    \/ ScratchCMP \/ ScratchNEG \/ ScratchMUL \/ ScratchDIV
    \/ ScratchSHL \/ ScratchSHR \/ ScratchSAR \/ ScratchROL \/ ScratchROR

SpecScratch == InitAlu /\ [][NextScratch]_vars

\* C28: the outcome of CMP, NEG, MUL, DIV, SHL, SHR, SAR, ROL and ROR (the
\* destination's value and the four flags) does not depend on what the
\* caller's scratch registers (temp, and the quotient register of DIV)
\* held before the call: whatever they held, the outcome is the one the
\* call had.
C28_ScratchContentsDoNotMatter ==
    \A i \in Calls : hist[i].alts = {Outcome(Post(i))}

\* a division by a non-zero divisor made with both scratch registers
\* holding stale non-zero values
C28_Witness ==
    \E i \in Calls :
        /\ hist[i].op = "DIV"
        /\ hist[i].pre.regs[1] # ZeroRegister
        /\ hist[i].pre.regs[temp] # ZeroRegister
        /\ hist[i].pre.regs[quotient] # ZeroRegister
        /\ Post(i).regs[0] # ZeroRegister

(***************************************************************************)
(* The demonstration program, statement by statement.  Each statement of   *)
(* main is executed in order on the sixteen registers of the register set; *)
(* hist records the statements executed.  The two literals of the DIV test *)
(* are also tried with the other literals of the arithmetic tests.         *)
(***************************************************************************)
DemoRegIds == 0 .. 15

DemoProgram ==
    << [op |-> "MOVI", a |-> 0,  imm |-> 50,  also |-> {},       line |-> 11],
       [op |-> "MOVI", a |-> 1,  imm |-> -1,  also |-> {},       line |-> 12],
       [op |-> "MOV",  a |-> 2,  b |-> 0,                        line |-> 13],
       [op |-> "INC",  a |-> 2,                                  line |-> 19],
       [op |-> "DEC",  a |-> 0,                                  line |-> 20],
       [op |-> "ADD",  a |-> 3,  b |-> 0,                        line |-> 25],
       [op |-> "ADD",  a |-> 3,  b |-> 1,                        line |-> 26],
       [op |-> "SUB",  a |-> 4,  b |-> 0,                        line |-> 31],
       [op |-> "SUB",  a |-> 4,  b |-> 1,                        line |-> 32],
       [op |-> "MOVI", a |-> 5,  imm |-> 42,  also |-> {},       line |-> 37],
       [op |-> "NEG",  a |-> 5,                                  line |-> 38],
       [op |-> "MOVI", a |-> 6,  imm |-> 6,   also |-> {},       line |-> 43],
       [op |-> "MOVI", a |-> 7,  imm |-> 7,   also |-> {},       line |-> 44],
       [op |-> "MUL",  a |-> 6,  b |-> 7,                        line |-> 45],
       [op |-> "MOVI", a |-> 8,  imm |-> 42,  also |-> Literals, line |-> 50],
       [op |-> "MOVI", a |-> 9,  imm |-> 4,   also |-> Literals, line |-> 51],
       [op |-> "DIV",  a |-> 8,  b |-> 9,                        line |-> 53],
       [op |-> "MOVI", a |-> 10, imm |-> 170, also |-> {},       line |-> 60],
       [op |-> "SHL",  a |-> 10, b |-> 1,                        line |-> 61],
       [op |-> "SHR",  a |-> 10, b |-> 2,                        line |-> 65],
       [op |-> "MOVI", a |-> 10, imm |-> 128, also |-> {},       line |-> 68],
       [op |-> "SAR",  a |-> 10, b |-> 2,                        line |-> 69],
       [op |-> "MOVI", a |-> 11, imm |-> 9,   also |-> {},       line |-> 73],
       [op |-> "ROL",  a |-> 11, b |-> 2,                        line |-> 74],
       [op |-> "ROR",  a |-> 11, b |-> 1,                        line |-> 78],
       [op |-> "MOVI", a |-> 12, imm |-> 100, also |-> {},       line |-> 82],
       [op |-> "MOVI", a |-> 13, imm |-> 100, also |-> {},       line |-> 83],
       [op |-> "CMP",  a |-> 12, b |-> 13,                       line |-> 84] >>

InitDemo ==
    /\ ARCHITECTURE = ExampleArchitecture
    /\ regs = Fresh(DemoRegIds).regs
    /\ CF = FALSE /\ ZF = FALSE /\ SF = FALSE /\ OF = FALSE
    /\ hist = <<>>

\* the statement control is at, if any is left
DemoPc == Len(hist) + 1
Stmt == DemoProgram[DemoPc]
At(op) == DemoPc <= Len(DemoProgram) /\ Stmt.op = op

Execute(arg, m) ==
    /\ regs' = m.regs
    /\ CF' = m.CF /\ ZF' = m.ZF /\ SF' = m.SF /\ OF' = m.OF
    /\ hist' = Append(hist, [op |-> Stmt.op, line |-> Stmt.line, arg |-> arg, pre |-> Machine])
    /\ UNCHANGED ARCHITECTURE

DemoMOVI == At("MOVI") /\ \E v \in {Stmt.imm} \cup Stmt.also : Execute(v, MOVI(Machine, Stmt.a, v))
DemoMOV == At("MOV") /\ Execute(0, MOV(Machine, Stmt.a, Stmt.b))
DemoINC == At("INC") /\ Execute(0, INC(Machine, Stmt.a))
DemoDEC == At("DEC") /\ Execute(0, DEC(Machine, Stmt.a))
DemoADD == At("ADD") /\ Execute(0, ADD(Machine, Stmt.a, Stmt.b))
DemoSUB == At("SUB") /\ Execute(0, SUB(Machine, Stmt.a, Stmt.b))
DemoNEG == At("NEG") /\ Execute(0, NEG(Machine, Stmt.a, temp, zero))
DemoMUL == At("MUL") /\ Execute(0, MUL(Machine, Stmt.a, Stmt.b, temp, zero))
\* alu.DIV(regs[8], regs[9], regs[14], regs[15], regs[13])
DemoDIV == At("DIV") /\ Execute(0, DIV(Machine, Stmt.a, Stmt.b, 14, 15, 13))
DemoSHL == At("SHL") /\ Execute(Stmt.b, SHL(Machine, Stmt.a, Stmt.b, zero, temp))
DemoSHR == At("SHR") /\ Execute(Stmt.b, SHR(Machine, Stmt.a, Stmt.b, zero, temp))
DemoSAR == At("SAR") /\ Execute(Stmt.b, SAR(Machine, Stmt.a, Stmt.b, zero, temp))
DemoROL == At("ROL") /\ Execute(Stmt.b, ROL(Machine, Stmt.a, Stmt.b, zero, temp))
DemoROR == At("ROR") /\ Execute(Stmt.b, ROR(Machine, Stmt.a, Stmt.b, zero, temp))
DemoCMP == At("CMP") /\ Execute(0, CMP(Machine, Stmt.a, Stmt.b, temp))

NextDemo ==
    \/ DemoMOVI \/ DemoMOV \/ DemoINC \/ DemoDEC \/ DemoADD \/ DemoSUB \/ DemoNEG
    \/ DemoMUL \/ DemoDIV \/ DemoSHL \/ DemoSHR \/ DemoSAR \/ DemoROL \/ DemoROR
    \/ DemoCMP

SpecDemo == InitDemo /\ [][NextDemo]_vars

\* the calls that are handed regs[15] as their zero argument, and the runs
\* in which every literal is the one main is written with
TakesZero == {"NEG", "MUL", "SHL", "SHR", "SAR", "ROL", "ROR"}
AsWritten == \A j \in Calls : hist[j].op = "MOVI" => hist[j].arg = DemoProgram[j].imm

\* C29: in the demonstration sequence as written, the register bound to
\* zero (regs[15]) holds the all-zero pattern at every ALU call that
\* receives it as the zero argument, the shifts and rotations made after
\* DIV was handed regs[15] as its temp register included.
C29_ZeroRegisterStaysZero ==
    AsWritten
    => \A i \in Calls : hist[i].op \in TakesZero => hist[i].pre.regs[zero] = ZeroRegister

====
